---- MODULE Spec2Model ----
\* Model of docs/javascript/individual-progress.js: three DOMContentLoaded
\* handlers that live in one file (the page scanner, the static-list dashboard
\* and the search-index dashboard), the task counting rules, the percentage
\* arithmetic and the discovery of tracked pages from the search index.
EXTENDS Integers, Sequences, FiniteSets, TLC

VARIABLES
  dashboardEl,   \* the page holds <div id="progress-dashboard-container">
  barEl,         \* "absent" | "authored" | "fallback": <div id="current-page-progress-bar">
  regions,       \* content regions of the page that the fallback selectors can match
  doc,           \* the loaded document: its list items and content areas
  searchIndex,   \* what search/search_index.json of the site holds
  container,     \* children of the dashboard container (messages and cards)
  bar,           \* children of the progress bar container
  barParent,     \* region the fallback bar container was appended to
  scripts,       \* script tags appended to document.head, by handler
  console,       \* console lines written (tags)
  inflight,      \* network requests issued and not yet settled
  pc1,           \* position of the individual-progress handler
  pc2, i2, data2, fetched2, outcomes2,   \* static-list dashboard handler
  pc3, i3, data3, fetched3, outcomes3,   \* search-index dashboard handler
  filesToTrack,  \* the `let filesToTrack = []` of the search-index handler
  idxError,      \* which error message populateFilesToTrack wrote, if any
  scanned        \* results of the three counting functions on doc (scan specification)

vars == << dashboardEl, barEl, regions, doc, searchIndex, container, bar, barParent,
           scripts, console, inflight, pc1, pc2, i2, data2, fetched2, outcomes2,
           pc3, i3, data3, fetched3, outcomes3, filesToTrack, idxError, scanned >>

-----------------------------------------------------------------------------
\* Bounds

MaxTasks == 40     \* largest uniform task list scanned
MaxMixed == 2      \* task items in front of one arbitrary list item
MaxLocLen == 4     \* tokens in a search-index location
MaxDocs == 2       \* records in the search index of a page load

-----------------------------------------------------------------------------
\* Number arithmetic of Math.round((completed / total) * 100).
\* JavaScript numbers are IEEE-754 doubles: the quotient is rounded to 53
\* significant bits, the product is rounded again, and Math.round rounds the
\* result half up.  A double's significand is kept as five limbs
\* << 1, 13 bits, 13 bits, 13 bits, 13 bits >>, most significant first; the
\* value of [s, m] is m * 2^(-s-52).

Limb == 8192

RECURSIVE Pow2(_)
Pow2(s) == IF s = 0 THEN 1 ELSE 2 * Pow2(s - 1)

RECURSIVE Shift(_, _, _)
Shift(k, n, s) == IF k >= n THEN s ELSE Shift(2 * k, n, s + 1)

\* Propagate carries through the limbs; the leading limb absorbs the last one.
Carry(z) ==
  LET c5 == z[5] \div Limb
      c4 == (z[4] + c5) \div Limb
      c3 == (z[3] + c4) \div Limb
      c2 == (z[2] + c3) \div Limb
  IN << z[1] + c2, (z[2] + c3) % Limb, (z[3] + c4) % Limb, (z[4] + c5) % Limb, z[5] % Limb >>

\* completed / total for 0 <= k <= n, n > 0: round to nearest, ties to even.
FDiv(k, n) ==
  IF k = 0 THEN [zero |-> TRUE, s |-> 0, m |-> <<0, 0, 0, 0, 0>>]
  ELSE LET s  == Shift(k, n, 0)
           a0 == k * Pow2(s)
           r0 == a0 % n
           r1 == (r0 * Limb) % n
           r2 == (r1 * Limb) % n
           r3 == (r2 * Limb) % n
           r4 == (r3 * Limb) % n
           d4 == (r3 * Limb) \div n
           up == 2 * r4 > n \/ (2 * r4 = n /\ d4 % 2 = 1)
           m  == Carry(<< a0 \div n, (r0 * Limb) \div n, (r1 * Limb) \div n,
                          (r2 * Limb) \div n, d4 + (IF up THEN 1 ELSE 0) >>)
       IN IF m[1] = 2 THEN [zero |-> FALSE, s |-> s - 1, m |-> <<1, 0, 0, 0, 0>>]
          ELSE [zero |-> FALSE, s |-> s, m |-> m]

\* x * 100: the exact product has 59 or 60 bits and is rounded back to 53.
FMul100(x) ==
  IF x.zero THEN x
  ELSE LET p    == Carry([i \in 1..5 |-> x.m[i] * 100])
           drop == IF p[1] < 128 THEN 6 ELSE 7
           low  == p[5] % Pow2(drop)
           half == Pow2(drop - 1)
           odd  == (p[5] \div Pow2(drop)) % 2 = 1
           up   == low > half \/ (low = half /\ odd)
       IN [zero |-> FALSE, s |-> x.s,
           m |-> Carry(<< p[1], p[2], p[3], p[4],
                          p[5] - low + (IF up THEN Pow2(drop) ELSE 0) >>)]

\* Math.round: the integer part plus the bit of weight one half.
MathRound(x) ==
  IF x.zero THEN 0
  ELSE IF x.s = 0 THEN x.m[1] + (x.m[2] \div (Limb \div 2))
  ELSE (x.m[1] \div Pow2(x.s)) + ((x.m[1] \div Pow2(x.s - 1)) % 2)

\* totalCheckboxes === 0 ? 0 : Math.round((completedCheckboxes / totalCheckboxes) * 100)
Percentage(completed, total) ==
  IF total = 0 THEN 0 ELSE MathRound(FMul100(FDiv(completed, total)))

-----------------------------------------------------------------------------
\* Documents.  A list item is described by what the selectors of the code see:
\*   cls          the <li> carries the class task-list-item
\*   box          id class of the first input[type="checkbox"] inside the item
\*                ("none": the item holds no checkbox; "task": any id other
\*                than the three navigation toggles)
\*   checked      that checkbox is checked
\*   dataChecked  the <li> carries data-checked="true"
\*   where        innermost content area holding the item
\* areas lists which of .md-typeset and <article> exist in the document.

NavToggles == {"__toc", "__drawer", "__search"}
BoxIds == {"none", "task"} \cup NavToggles
Areas == {"typeset", "article"}

Items ==
  { it \in [cls : BOOLEAN, box : BoxIds, checked : BOOLEAN, dataChecked : BOOLEAN,
            where : Areas \cup {"body"}] : it.box = "none" => ~it.checked }

ContentOf(areas) ==
  IF "typeset" \in areas THEN "typeset" ELSE IF "article" \in areas THEN "article" ELSE "body"

TaskItem(chk, areas) ==
  [cls |-> TRUE, box |-> "task", checked |-> chk, dataChecked |-> FALSE, where |-> ContentOf(areas)]

\* n task items of which the first k are checked
Tasks(k, n, areas) == [i \in 1..n |-> TaskItem(i <= k, areas)]

Docs ==
  LET Shape(max) == { kn \in (0..max) \X (0..max) : kn[1] <= kn[2] }
  IN { [areas |-> a, items |-> Tasks(kn[1], kn[2], a)] : a \in SUBSET Areas, kn \in Shape(MaxTasks) } \cup
     { d \in { [areas |-> a, items |-> Append(Tasks(kn[1], kn[2], a), it)] :
                 a \in SUBSET Areas, kn \in Shape(MaxMixed), it \in Items } :
         d.items[Len(d.items)].where \in d.areas \cup {"body"} }

\* The response body of a page: the empty string, or the markup of a document.
\* DOMParser rebuilds from the markup the items, their classes, ids and
\* attributes.
EmptyHtml == [empty |-> TRUE, areas |-> {}, items |-> <<>>]
HtmlOf(d) == [empty |-> FALSE, areas |-> d.areas, items |-> d.items]

ZeroProgress == [completed |-> 0, total |-> 0, percentage |-> 0]

\* The forEach loops increment a counter once per selected item.
CountItems(items, P(_)) == Len(SelectSeq(items, P))

Progress(completed, total) ==
  [completed |-> completed, total |-> total, percentage |-> Percentage(completed, total)]

\* parseCurrentPageProgress: li.task-list-item whose first checkbox is not a
\* navigation toggle; completed when that checkbox is checked.
IsPageTask(it) == it.cls /\ it.box # "none" /\ it.box \notin NavToggles

parseCurrentPageProgress(d) ==
  Progress(CountItems(d.items, LAMBDA it : IsPageTask(it) /\ it.checked),
           CountItems(d.items, IsPageTask))

\* parseHtmlProgress of the search-index handler: li.task-list-item holding a
\* checkbox, whatever its id.
IsRemoteTask(it) == it.cls /\ it.box # "none"

parseHtmlProgress(html) ==
  IF html.empty THEN ZeroProgress
  ELSE Progress(CountItems(html.items, LAMBDA it : IsRemoteTask(it) /\ it.checked),
                CountItems(html.items, IsRemoteTask))

\* parseHtmlProgress of the static-list handler: every <li> of the content area
\* that has the class or holds a checkbox; completed when data-checked="true"
\* or the checkbox is checked.
InContentArea(html, it) == ContentOf(html.areas) = "body" \/ it.where = ContentOf(html.areas)

IsStaticTask(html, it) == InContentArea(html, it) /\ (it.cls \/ it.box # "none")

IsStaticDone(it) == it.dataChecked \/ (it.box # "none" /\ it.checked)

\* variant: data-checked="true" counts as completed on every <li> of the
\* document, task item of the content area or not
parseHtmlProgressStaticLooseDone(html) ==
  IF html.empty THEN ZeroProgress
  ELSE Progress(CountItems(html.items, IsStaticDone),
                CountItems(html.items, LAMBDA it : IsStaticTask(html, it)))

parseHtmlProgressStatic(html) ==
  IF html.empty THEN ZeroProgress
  ELSE Progress(CountItems(html.items, LAMBDA it : IsStaticTask(html, it) /\ IsStaticDone(it)),
                CountItems(html.items, LAMBDA it : IsStaticTask(html, it)))

-----------------------------------------------------------------------------
\* Strings.  A location, name or id is a sequence of tokens; a token stands
\* for a run of characters that the string operations of the code never split.

LocTokens == {"index", "about", "my_page", "/", ".html", ".md"}

Str(n) == UNION { [1..m -> LocTokens] : m \in 0..n }

Includes(s, tok) == \E i \in 1..Len(s) : s[i] = tok
EndsWith(s, tok) == Len(s) > 0 /\ s[Len(s)] = tok
\* s.split(tok).length
SplitLength(s, tok) == Len(SelectSeq(s, LAMBDA t : t = tok)) + 1
\* s.replace(/tok$/, '')
StripSuffix(s, tok) == IF EndsWith(s, tok) THEN SubSeq(s, 1, Len(s) - 1) ELSE s
\* s.split('/').pop()
RECURSIVE LastSegment(_)
LastSegment(s) ==
  IF ~Includes(s, "/") THEN s ELSE LastSegment(Tail(s))
\* s.replace(/_/g, ' ') and s.replace(/\//g, '-'), token by token
Underscores == [t \in LocTokens |-> IF t = "my_page" THEN "my page" ELSE t]
Slashes == [t \in LocTokens |-> IF t = "/" THEN "-" ELSE t]
\* charAt(0).toUpperCase() of the first token
UpperFirst(t) ==
  CASE t = "index" -> "Index" [] t = "about" -> "About" [] t = "my page" -> "My page"
    [] OTHER -> t
Capitalize(s) == IF s = <<>> THEN s ELSE << UpperFirst(s[1]) >> \o Tail(s)

\* The characters of each token, for String.prototype.localeCompare.
Spell(t) ==
  CASE t = "index" -> <<"i", "n", "d", "e", "x">>
    [] t = "Index" -> <<"I", "n", "d", "e", "x">>
    [] t = "about" -> <<"a", "b", "o", "u", "t">>
    [] t = "About" -> <<"A", "b", "o", "u", "t">>
    [] t = "my page" -> <<"m", "y", " ", "p", "a", "g", "e">>
    [] t = "My page" -> <<"M", "y", " ", "p", "a", "g", "e">>
    [] t = "my_page" -> <<"m", "y", "_", "p", "a", "g", "e">>
    [] t = ".html" -> <<".", "h", "t", "m", "l">>
    [] t = ".md" -> <<".", "m", "d">>
    [] t = "/" -> <<"/">>
    [] t = "Home" -> <<"H", "o", "m", "e">>
    [] t = "Zeta" -> <<"Z", "e", "t", "a">>

RECURSIVE Chars(_)
Chars(s) == IF s = <<>> THEN <<>> ELSE Spell(Head(s)) \o Chars(Tail(s))

\* Collation order of the characters in use: white space, punctuation, letters.
Collation ==
  << " ", "_", ".", "/", "a", "b", "d", "e", "g", "h", "i", "l", "m", "n", "o", "p",
     "t", "u", "x", "y", "z" >>
LowerOf(c) ==
  CASE c = "A" -> "a" [] c = "H" -> "h" [] c = "I" -> "i" [] c = "M" -> "m" [] c = "Z" -> "z"
    [] OTHER -> c
Rank(c) == CHOOSE r \in 1..Len(Collation) : Collation[r] = LowerOf(c)

\* a.localeCompare(b) < 0, = 0, > 0 as -1, 0, 1: letters first, case breaks ties
\* (lower case before upper case).
RECURSIVE CompareKeys(_, _)
CompareKeys(a, b) ==
  IF a = <<>> /\ b = <<>> THEN 0
  ELSE IF a = <<>> THEN -1
  ELSE IF b = <<>> THEN 1
  ELSE IF Head(a) < Head(b) THEN -1
  ELSE IF Head(a) > Head(b) THEN 1
  ELSE CompareKeys(Tail(a), Tail(b))

localeCompare(a, b) ==
  LET ca == Chars(a)
      cb == Chars(b)
      primary == CompareKeys([i \in 1..Len(ca) |-> Rank(ca[i])], [i \in 1..Len(cb) |-> Rank(cb[i])])
      case(cs) == [i \in 1..Len(cs) |-> IF LowerOf(cs[i]) = cs[i] THEN 0 ELSE 1]
  IN IF primary # 0 THEN primary ELSE CompareKeys(case(ca), case(cb))

-----------------------------------------------------------------------------
\* Discovery of the tracked pages (populateFilesToTrack).

\* if (doc.location === 'index/' || ... 'index.md' || ... 'index.html') return false
IsIndexLocation(loc) ==
  loc \in { <<"index", "/">>, <<"index", ".md">>, <<"index", ".html">> }

\* !location.includes('/') || (location.endsWith('/') && location.split('/').length <= 2)
isTopLevelPage(loc) ==
  ~Includes(loc, "/") \/ (EndsWith(loc, "/") /\ SplitLength(loc, "/") <= 2)

Keeps(d) == ~IsIndexLocation(d.location) /\ isTopLevelPage(d.location)

\* name derived from the location when the record has no title
DerivedName(loc) ==
  LET bare == StripSuffix(StripSuffix(StripSuffix(loc, ".md"), ".html"), "/")
      last == LastSegment(bare)
  IN Capitalize([i \in 1..Len(last) |-> Underscores[last[i]]])

TrackedPage(d) ==
  [id   |-> StripSuffix(StripSuffix([i \in 1..Len(d.location) |-> Slashes[d.location[i]]], ".md"), ".html"),
   name |-> IF d.title # <<>> THEN d.title ELSE DerivedName(d.location),
   path |-> d.location]

\* Array.prototype.sort is stable: an element goes behind every element that
\* does not compare greater.
RECURSIVE Insert(_, _)
Insert(sorted, p) ==
  IF sorted = <<>> THEN << p >>
  ELSE IF localeCompare(Head(sorted).name, p.name) > 0 THEN << p >> \o sorted
  ELSE << Head(sorted) >> \o Insert(Tail(sorted), p)

RECURSIVE SortByName(_)
SortByName(ps) ==
  IF ps = <<>> THEN <<>> ELSE Insert(SortByName(SubSeq(ps, 1, Len(ps) - 1)), ps[Len(ps)])

\* What the try block of populateFilesToTrack does with the parsed index:
\* it throws when the index has no docs array or a record has no location.
Throws(index) ==
  \/ index.kind # "docs"
  \/ \E i \in 1..Len(index.docs) : ~index.docs[i].hasLocation

Discover(docs) ==
  LET kept == SelectSeq(docs, Keeps)
  IN SortByName([i \in 1..Len(kept) |-> TrackedPage(kept[i])])

-----------------------------------------------------------------------------
\* The page and the site a page load runs against.

RegionSelectors == << "main", "inner", "typeset", "article", "body" >>
AllRegions == { RegionSelectors[i] : i \in 1..Len(RegionSelectors) }

\* document.body holds every other region; a document without body has none.
PageRegions == { {} } \cup { r \in SUBSET AllRegions : "body" \in r }

\* querySelector('[role="main"]') || ... || document.body
mainContent(regs) ==
  IF \E i \in 1..Len(RegionSelectors) : RegionSelectors[i] \in regs
  THEN RegionSelectors[CHOOSE i \in 1..Len(RegionSelectors) :
                          /\ RegionSelectors[i] \in regs
                          /\ \A j \in 1..(i - 1) : RegionSelectors[j] \notin regs]
  ELSE "none"

TwoOfThree == [areas |-> {"typeset"}, items |-> Tasks(2, 3, {"typeset"})]
ToggleDoc ==
  [areas |-> {"typeset"},
   items |-> << TaskItem(TRUE, {"typeset"}),
                [cls |-> TRUE, box |-> "__toc", checked |-> TRUE, dataChecked |-> FALSE, where |-> "body"] >>]
NoTasks == [areas |-> {}, items |-> <<>>]

PageDocs == { NoTasks, TwoOfThree, ToggleDoc }

\* bodies a tracked page may answer with
RemoteHtmls == { EmptyHtml, HtmlOf(TwoOfThree) }

IndexDoc(loc, title) == [hasLocation |-> TRUE, location |-> loc, title |-> title]
NoLocationDoc == [hasLocation |-> FALSE, location |-> <<>>, title |-> << "Home" >>]

IndexDocs ==
  { IndexDoc(<<>>, << "Home" >>),
    IndexDoc(<< "index", ".html" >>, << "Home" >>),
    IndexDoc(<< "about", "/" >>, << "Zeta" >>),
    IndexDoc(<< "my_page", "/" >>, <<>>),
    IndexDoc(<< "about", "/", "my_page", "/" >>, <<>>),
    NoLocationDoc }

Malformed == [kind |-> "malformed", docs |-> <<>>]
NoDocsArray == [kind |-> "nodocs", docs |-> <<>>]
IndexOf(docs) == [kind |-> "docs", docs |-> docs]

\* the indexes a dashboard page is loaded against: no record twice
SearchIndexes ==
  { Malformed, NoDocsArray } \cup
  { IndexOf(ds) : ds \in { x \in UNION { [1..n -> IndexDocs] : n \in 0..MaxDocs } :
                             \A j, m \in 1..Len(x) : x[j] = x[m] => j = m } }

Titles == { <<>>, << "Home" >> }

WideDocs == { IndexDoc(loc, t) : loc \in Str(MaxLocLen), t \in Titles }

SecondDocs == { IndexDoc(<< "about", "/" >>, << "Zeta" >>), IndexDoc(<< "my_page", "/" >>, <<>>) }

\* the indexes with one or two records that discovery is checked on
DiscoveryIndexes ==
  { IndexOf(<< d >>) : d \in WideDocs } \cup { IndexOf(<< d, e >>) : d \in WideDocs, e \in SecondDocs }

\* what the filter, map and sort of populateFilesToTrack leave in filesToTrack:
\* Discover of the records, tabulated for the indexes of a page load
SiteTrackedPages == [index \in { x \in SearchIndexes : ~Throws(x) } |-> Discover(index.docs)]

TrackedPagesOf(index) ==
  IF index \in DOMAIN SiteTrackedPages THEN SiteTrackedPages[index] ELSE Discover(index.docs)

\* const filesToTrack = [...] of the static-list handler
StaticFiles ==
  << [id |-> << "project-setup" >>, name |-> << "Project Setup Tasks" >>, path |-> << "project_setup", "/" >>],
     [id |-> << "frontend" >>, name |-> << "Frontend Development" >>, path |-> << "frontend", "/" >>],
     [id |-> << "backend" >>, name |-> << "Backend Development" >>, path |-> << "backend", "/" >>] >>

-----------------------------------------------------------------------------
\* DOM fragments

Message(text) == [kind |-> "p", text |-> text]

LoadingStatic == Message("Loading progress...")
LoadingIndex == Message("Loading task progress...")
ErrorFetchIndex == Message("Error loading progress: Could not fetch search index. Please check console for details.")
ErrorParseIndex == Message("Error loading progress: Failed to parse search index data. Check console.")
NoTrackedPages == Message("No other tracked pages found (excluding this dashboard page).")
NoDataStatic == Message("No progress data found or failed to load.")
NoDataIndex == Message("No progress data found or failed to load for tracked pages.")

\* fileCard: the name, the counts and the bar of one entry; `by` records which
\* handler appended it.
Card(h, e) ==
  [kind |-> "card", by |-> h, name |-> e.name, completed |-> e.completed, total |-> e.total,
   percentage |-> e.percentage]

PageBar(p) == [kind |-> "bar", completed |-> p.completed, total |-> p.total, percentage |-> p.percentage]

\* { ...file, ...progress }
Entry(file, p) ==
  [id |-> file.id, name |-> file.name, path |-> file.path,
   completed |-> p.completed, total |-> p.total, percentage |-> p.percentage]

\* variant: a page without tasks is left out of the result list
PushResultSkippingEmpty(data, file, p) ==
  IF p.total = 0 THEN data ELSE Append(data, Entry(file, p))

PushResult(data, file, p) == Append(data, Entry(file, p))

\* progressContainer.innerHTML = ''; then the empty-data message or one card
\* per entry, appended in order
\* variant: the cards are appended without clearing the container first
RenderedWithoutClear(h, data, none) ==
  container \o [j \in 1..Len(data) |-> Card(h, data[j])]

Rendered(h, data, none) ==
  IF data = <<>> THEN << none >> ELSE [j \in 1..Len(data) |-> Card(h, data[j])]

Request(h, what, i) == [by |-> h, what |-> what, i |-> i]

\* variant: every remaining page is requested at once
StartedAll(h, list, i) == { Request(h, "page", j) : j \in (i + 1)..Len(list) }

\* the page fetches a run has in flight once page i is dealt with: the loop
\* awaits fetchHtmlContent of one page before it takes the next
Started(h, list, i) == IF i < Len(list) THEN { Request(h, "page", i + 1) } ELSE {}

\* variant: the body is used whatever the status
fetchHtmlContentIgnoringStatus(outcome, body) == body

\* what fetchHtmlContent returns: the body when the response is ok and its
\* text could be read, the empty string on a non-success status ("notok") and
\* in the catch block ("error": fetch or response.text() rejected)
fetchHtmlContent(outcome, body) == IF outcome = "ok" THEN body ELSE EmptyHtml

\* the paths of the requests in reqs, in list order
StartedPaths(list, reqs) ==
  LET is == { r.i : r \in reqs }
  IN [j \in 1..Cardinality(is) |->
        list[CHOOSE m \in is : Cardinality({ x \in is : x < m }) = j - 1].path]

-----------------------------------------------------------------------------
\* State after construction: the document is parsed, no listener has run.

Blank ==
  /\ container = <<>> /\ bar = <<>> /\ barParent = "none"
  /\ scripts = <<>> /\ console = {} /\ inflight = {}
  /\ pc1 = "ready"
  /\ pc2 = "ready" /\ i2 = 0 /\ data2 = <<>> /\ fetched2 = <<>> /\ outcomes2 = <<>>
  /\ pc3 = "ready" /\ i3 = 0 /\ data3 = <<>> /\ fetched3 = <<>> /\ outcomes3 = <<>>
  /\ filesToTrack = <<>> /\ idxError = "none"
  /\ scanned = [index |-> <<>>, static |-> <<>>]

\* A content page (any bar container, any content regions, a task document) or
\* the dashboard page of a site with some search index.
Init ==
  /\ Blank
  /\ barEl \in {"absent", "authored"}
  /\ \/ /\ dashboardEl = FALSE
        /\ regions \in PageRegions
        /\ doc \in PageDocs
        /\ searchIndex = IndexOf(<<>>)
     \/ /\ dashboardEl = TRUE
        /\ regions = AllRegions
        /\ doc = NoTasks
        /\ searchIndex \in SearchIndexes

-----------------------------------------------------------------------------
\* Handler 1: individual-progress.js

\* variant: the page scanner does not look for the dashboard container
IsIndexPageNever(dash) == FALSE

\* if (document.getElementById('progress-dashboard-container')) return
IsIndexPage(dash) == dash

DOMContentLoaded1 ==
  /\ pc1 = "ready"
  /\ pc1' = "done"
  /\ IF IsIndexPage(dashboardEl)
     THEN /\ console' = console \cup {"h1: this is index.md"}
          /\ UNCHANGED << barEl, barParent, scripts, bar >>
     ELSE IF barEl = "absent" /\ mainContent(regions) = "none"
     THEN /\ console' = console \cup {"h1: no suitable container"}
          /\ UNCHANGED << barEl, barParent, scripts, bar >>
     ELSE /\ IF barEl = "absent"
             THEN /\ barEl' = "fallback"
                  /\ barParent' = mainContent(regions)
                  /\ console' = console \cup {"h1: fallback created"}
             ELSE UNCHANGED << barEl, barParent, console >>
          /\ scripts' = Append(scripts, 1)
          /\ bar' = << PageBar(parseCurrentPageProgress(doc)) >>
  /\ UNCHANGED << dashboardEl, regions, doc, searchIndex, container, inflight,
                  pc2, i2, data2, fetched2, outcomes2,
                  pc3, i3, data3, fetched3, outcomes3, filesToTrack, idxError, scanned >>

-----------------------------------------------------------------------------
\* Handler 2: progress.js with the static list

\* variant: the dashboard handlers do not check their container
ContainerMissingNever(dash) == FALSE

\* if (!progressContainer) return
ContainerMissing(dash) == ~dash

DOMContentLoaded2 ==
  /\ pc1 = "done" /\ pc2 = "ready"
  /\ IF ContainerMissing(dashboardEl)
     THEN /\ pc2' = "done"
          /\ console' = console \cup {"h2: container not found"}
          /\ UNCHANGED << scripts, container, inflight, i2, fetched2 >>
     ELSE /\ scripts' = Append(scripts, 2)
          /\ container' = << LoadingStatic >>
          /\ inflight' = inflight \cup Started(2, StaticFiles, 0)
          /\ fetched2' = StartedPaths(StaticFiles, Started(2, StaticFiles, 0))
          /\ i2' = 1
          /\ pc2' = "fetch"
          /\ UNCHANGED console
  /\ UNCHANGED << dashboardEl, barEl, regions, doc, searchIndex, bar, barParent, pc1,
                  data2, outcomes2,
                  pc3, i3, data3, fetched3, outcomes3, filesToTrack, idxError, scanned >>

\* The rest of one loop iteration of renderProgressDashboard once
\* fetchHtmlContent has returned html for page i2, and the rendering behind
\* the loop when that was the last page.
Continue2(outcome, html) ==
  LET data == PushResult(data2, StaticFiles[i2], parseHtmlProgressStatic(html))
      next == Started(2, StaticFiles, i2)
  IN /\ data2' = data
     /\ outcomes2' = Append(outcomes2, outcome)
     /\ inflight' = (inflight \ { Request(2, "page", i2) }) \cup next
     /\ fetched2' = fetched2 \o StartedPaths(StaticFiles, next)
     /\ IF i2 < Len(StaticFiles)
        THEN /\ i2' = i2 + 1
             /\ pc2' = "fetch"
             /\ UNCHANGED container
        ELSE /\ pc2' = "done"
             /\ container' = Rendered(2, data, NoDataStatic)
             /\ UNCHANGED i2

Frame2 ==
  UNCHANGED << dashboardEl, barEl, regions, doc, searchIndex, bar, barParent, scripts, pc1,
               pc3, i3, data3, fetched3, outcomes3, filesToTrack, idxError, scanned >>

\* `await fetch(fullUrl)` of the static-list handler settles
PageFetchSettles2 ==
  /\ pc2 = "fetch" /\ pc3 # "ready"
  /\ \E outcome \in {"ok", "notok", "error"} :
       IF outcome = "ok"
       THEN /\ pc2' = "text"
            /\ UNCHANGED << i2, data2, fetched2, outcomes2, inflight, container, console >>
       ELSE /\ \E body \in RemoteHtmls : Continue2(outcome, fetchHtmlContent(outcome, body))
            /\ console' = console \cup {"h2: fetch failed"}
  /\ Frame2

\* `await response.text()` of the static-list handler settles
PageTextSettles2 ==
  /\ pc2 = "text"
  /\ \E outcome \in {"ok", "error"} : \E body \in RemoteHtmls :
       /\ Continue2(outcome, fetchHtmlContent(outcome, body))
       /\ console' = IF outcome = "ok" THEN console ELSE console \cup {"h2: fetch failed"}
  /\ Frame2

-----------------------------------------------------------------------------
\* Handler 3: progress.js driven by the search index

DOMContentLoaded3 ==
  /\ pc2 # "ready" /\ pc3 = "ready"
  /\ IF ContainerMissing(dashboardEl)
     THEN /\ pc3' = "done"
          /\ console' = console \cup {"h3: container not found"}
          /\ UNCHANGED << scripts, container, inflight >>
     ELSE /\ scripts' = Append(scripts, 3)
          /\ container' = << LoadingIndex >>
          /\ inflight' = inflight \cup { Request(3, "index", 0) }
          /\ pc3' = "idxFetch"
          /\ UNCHANGED console
  /\ UNCHANGED << dashboardEl, barEl, regions, doc, searchIndex, bar, barParent, pc1,
                  pc2, i2, data2, fetched2, outcomes2,
                  i3, data3, fetched3, outcomes3, filesToTrack, idxError, scanned >>

\* variant: no return behind the error message of a non-success status
ProceedsToJsonAlways(outcome) == outcome # "reject"

\* populateFilesToTrack goes on to response.json() only when response.ok
ProceedsToJson(outcome) == outcome = "ok"

\* renderConsolidatedDashboard behind `await populateFilesToTrack()`: files is
\* what filesToTrack holds now and shown what the container shows now.
AfterPopulate(files, shown) ==
  /\ filesToTrack' = files
  /\ IF files = <<>>
     THEN /\ container' = << NoTrackedPages >>
          /\ pc3' = "done"
          /\ inflight' = inflight \ { Request(3, "index", 0) }
          /\ UNCHANGED << i3, fetched3 >>
     ELSE /\ container' = shown
          /\ pc3' = "fetch"
          /\ i3' = 1
          /\ inflight' = (inflight \ { Request(3, "index", 0) }) \cup Started(3, files, 0)
          /\ fetched3' = StartedPaths(files, Started(3, files, 0))

Frame3 ==
  UNCHANGED << dashboardEl, barEl, regions, doc, searchIndex, bar, barParent, scripts, pc1,
               pc2, i2, data2, fetched2, outcomes2, scanned >>

\* `await fetch(searchIndexUrl)` settles
IndexFetchSettles ==
  /\ pc3 = "idxFetch"
  /\ \E outcome \in {"ok", "notok", "reject"} :
       LET shown == CASE outcome = "ok" -> container
                      [] outcome = "notok" -> << ErrorFetchIndex >>
                      [] outcome = "reject" -> << ErrorParseIndex >>
       IN /\ idxError' = CASE outcome = "ok" -> idxError
                           [] outcome = "notok" -> "fetch"
                           [] outcome = "reject" -> "parse"
          /\ console' = IF outcome = "ok" THEN console ELSE console \cup {"h3: search index failed"}
          /\ IF ProceedsToJson(outcome)
             THEN /\ pc3' = "idxJson"
                  /\ container' = shown
                  /\ UNCHANGED << filesToTrack, inflight, i3, fetched3 >>
             ELSE AfterPopulate(filesToTrack, shown)
  /\ UNCHANGED << data3, outcomes3 >>
  /\ Frame3

\* `await response.json()` settles; the filter, map and sort run on its value
IndexJsonSettles ==
  /\ pc3 = "idxJson"
  /\ \E outcome \in {"ok", "bodyreject"} :
       IF outcome = "bodyreject" \/ Throws(searchIndex)
       THEN /\ idxError' = "parse"
            /\ console' = console \cup {"h3: search index failed"}
            /\ AfterPopulate(filesToTrack, << ErrorParseIndex >>)
       ELSE /\ UNCHANGED << idxError, console >>
            /\ AfterPopulate(TrackedPagesOf(searchIndex), container)
  /\ UNCHANGED << data3, outcomes3 >>
  /\ Frame3

\* The rest of one loop iteration of renderConsolidatedDashboard once
\* fetchHtmlContent has returned html for page i3, and the rendering behind
\* the loop when that was the last page.
Continue3(outcome, html) ==
  LET data == PushResult(data3, filesToTrack[i3], parseHtmlProgress(html))
      next == Started(3, filesToTrack, i3)
  IN /\ data3' = data
     /\ outcomes3' = Append(outcomes3, outcome)
     /\ inflight' = (inflight \ { Request(3, "page", i3) }) \cup next
     /\ fetched3' = fetched3 \o StartedPaths(filesToTrack, next)
     /\ IF i3 < Len(filesToTrack)
        THEN /\ i3' = i3 + 1
             /\ pc3' = "fetch"
             /\ UNCHANGED container
        ELSE /\ pc3' = "done"
             /\ container' = Rendered(3, data, NoDataIndex)
             /\ UNCHANGED i3

\* `await fetch(fullUrl)` of the search-index handler settles
PageFetchSettles3 ==
  /\ pc3 = "fetch"
  /\ \E outcome \in {"ok", "notok", "error"} :
       IF outcome = "ok"
       THEN /\ pc3' = "text"
            /\ UNCHANGED << i3, data3, fetched3, outcomes3, inflight, container, console >>
       ELSE /\ \E body \in RemoteHtmls : Continue3(outcome, fetchHtmlContent(outcome, body))
            /\ console' = console \cup {"h3: fetch failed"}
  /\ UNCHANGED << filesToTrack, idxError >>
  /\ Frame3

\* `await response.text()` of the search-index handler settles
PageTextSettles3 ==
  /\ pc3 = "text"
  /\ \E outcome \in {"ok", "error"} : \E body \in RemoteHtmls :
       /\ Continue3(outcome, fetchHtmlContent(outcome, body))
       /\ console' = IF outcome = "ok" THEN console ELSE console \cup {"h3: fetch failed"}
  /\ UNCHANGED << filesToTrack, idxError >>
  /\ Frame3

Next ==
  \/ DOMContentLoaded1
  \/ DOMContentLoaded2
  \/ DOMContentLoaded3
  \/ PageFetchSettles2
  \/ PageTextSettles2
  \/ IndexFetchSettles
  \/ IndexJsonSettles
  \/ PageFetchSettles3
  \/ PageTextSettles3

Spec == Init /\ [][Next]_vars

\* The browser dispatches DOMContentLoaded to every listener, and every issued
\* request settles: no handler step stays pending for ever.
Fairness ==
  /\ WF_vars(DOMContentLoaded1) /\ WF_vars(DOMContentLoaded2) /\ WF_vars(DOMContentLoaded3)
  /\ WF_vars(PageFetchSettles2) /\ WF_vars(PageTextSettles2)
  /\ WF_vars(IndexFetchSettles) /\ WF_vars(IndexJsonSettles)
  /\ WF_vars(PageFetchSettles3) /\ WF_vars(PageTextSettles3)

\* A dashboard load: the page that holds the dashboard container, loaded
\* against any search index.
LiveInit == Init /\ dashboardEl = TRUE

FairSpec == LiveInit /\ [][Next]_vars /\ Fairness

-----------------------------------------------------------------------------
\* Scan specification: one document is loaded as a content page, the page
\* scanner counts it, and both parseHtmlProgress functions count its markup.

ScanInit ==
  /\ Blank
  /\ dashboardEl = FALSE
  /\ barEl = "authored"
  /\ regions = AllRegions
  /\ searchIndex = IndexOf(<<>>)
  /\ doc \in Docs

ScanFrame ==
  UNCHANGED << dashboardEl, barEl, regions, doc, searchIndex, container, bar, barParent,
               scripts, console, inflight, pc1, pc2, i2, data2, fetched2, outcomes2,
               pc3, i3, data3, fetched3, outcomes3, filesToTrack, idxError >>

ParseAsIndexVariant ==
  /\ scanned.index = <<>>
  /\ scanned' = [scanned EXCEPT !.index = << parseHtmlProgress(HtmlOf(doc)) >>]
  /\ ScanFrame

ParseAsStaticVariant ==
  /\ scanned.static = <<>>
  /\ scanned' = [scanned EXCEPT !.static = << parseHtmlProgressStatic(HtmlOf(doc)) >>]
  /\ ScanFrame

ScanNext ==
  \/ DOMContentLoaded1
  \/ ParseAsIndexVariant
  \/ ParseAsStaticVariant

ScanSpec == ScanInit /\ [][ScanNext]_vars

-----------------------------------------------------------------------------
\* Discovery specification: the dashboard page is loaded against every small
\* search index and runs up to the first page fetch.

DiscoveryInit ==
  /\ Blank
  /\ dashboardEl = TRUE
  /\ barEl = "absent"
  /\ regions = AllRegions
  /\ doc = NoTasks
  /\ searchIndex \in DiscoveryIndexes

DiscoveryNext ==
  \/ DOMContentLoaded1
  \/ DOMContentLoaded2
  \/ DOMContentLoaded3
  \/ IndexFetchSettles
  \/ IndexJsonSettles

DiscoverySpec == DiscoveryInit /\ [][DiscoveryNext]_vars

-----------------------------------------------------------------------------
\* Properties

Failed(outcome) == outcome # "ok"
IsZero(e) == e.completed = 0 /\ e.total = 0 /\ e.percentage = 0
PageRequests(h) == { r \in inflight : r.by = h /\ r.what = "page" }
CardsBy(h) == SelectSeq(container, LAMBDA n : n.kind = "card" /\ n.by = h)
HasCards == \E j \in 1..Len(container) : container[j].kind = "card"
Injected(h) == \E j \in 1..Len(scripts) : scripts[j] = h

\* C1: when the index fetch fails or its body cannot be processed, the
\* container shows the error message of populateFilesToTrack once
\* renderConsolidatedDashboard has finished.
C1_ErrorMessageShown ==
  (pc3 = "done" /\ idxError # "none") =>
     container = << IF idxError = "fetch" THEN ErrorFetchIndex ELSE ErrorParseIndex >>

\* C2: a page whose fetch fails (non-success status, transport error, body
\* read error) is recorded with completed 0, total 0, percentage 0, every
\* settled page has an entry, and the run goes on to fetch the next page until
\* every page of its list has been fetched.
BatchContinues(h, pc, list, data, outcomes, fetched) ==
  /\ Len(outcomes) = Len(data)
  /\ \A j \in 1..Len(data) : Failed(outcomes[j]) => IsZero(data[j])
  /\ pc \in {"fetch", "text"} =>
       /\ Len(fetched) = Len(data) + 1
       /\ Request(h, "page", Len(data) + 1) \in inflight
  /\ (pc = "done" /\ fetched # <<>>) =>
       /\ Len(data) = Len(list)
       /\ fetched = [j \in 1..Len(list) |-> list[j].path]

C2_FailedPageIsZeroAndBatchContinues ==
  /\ BatchContinues(2, pc2, StaticFiles, data2, outcomes2, fetched2)
  /\ BatchContinues(3, pc3, filesToTrack, data3, outcomes3, fetched3)

C2_Witness ==
  /\ pc3 = "done" /\ pc2 = "done"
  /\ Len(data3) = 2
  /\ Failed(outcomes3[1]) /\ IsZero(data3[1])
  /\ data3[2].total = 3
  /\ Failed(outcomes2[2]) /\ data2[3].total = 3

\* C3: the result list of a run has one entry per page of its input list,
\* entry j carries id, name and path of input page j, and when the run
\* finishes it leaves one card per entry in the container, in that order.
InInputOrder(list, data) ==
  /\ Len(data) <= Len(list)
  /\ \A j \in 1..Len(data) :
       data[j].id = list[j].id /\ data[j].name = list[j].name /\ data[j].path = list[j].path

CardsInOrder(h, data) ==
  /\ Len(container) = Len(data)
  /\ \A j \in 1..Len(data) :
       /\ container[j].kind = "card" /\ container[j].by = h
       /\ container[j].name = data[j].name
       /\ container[j].completed = data[j].completed
       /\ container[j].total = data[j].total
       /\ container[j].percentage = data[j].percentage

ResultsFollowInput ==
  /\ InInputOrder(StaticFiles, data2)
  /\ InInputOrder(filesToTrack, data3)
  /\ (pc2 = "done" /\ dashboardEl) => Len(data2) = Len(StaticFiles)
  /\ pc3 = "done" => Len(data3) = Len(filesToTrack)

CardsAppendedInOrder ==
  /\ (pc2 # "done" /\ pc2' = "done" /\ dashboardEl) => CardsInOrder(2, data2)'
  /\ (pc3 # "done" /\ pc3' = "done" /\ filesToTrack' # <<>>) => CardsInOrder(3, data3)'

C3_ResultsAndCardsInInputOrder == []ResultsFollowInput /\ [][CardsAppendedInOrder]_vars

C3_Witness ==
  /\ pc3 = "done" /\ Len(filesToTrack) = 2 /\ Len(data3) = 2
  /\ Failed(outcomes3[1]) /\ ~Failed(outcomes3[2])
  /\ CardsInOrder(3, data3)
  /\ pc2 = "done" /\ Failed(outcomes2[2])

\* C4: a run never has two page fetches in flight, it starts its fetches in
\* list order, and the fetch of page j+1 starts only after page j has settled
\* (its entry is recorded).
Sequential(h, list, data, fetched) ==
  /\ Cardinality(PageRequests(h)) <= 1
  /\ Len(fetched) <= Len(list)
  /\ \A j \in 1..Len(fetched) : fetched[j] = list[j].path
  /\ Len(fetched) <= Len(data) + 1
  /\ \A r \in PageRequests(h) : r.i = Len(fetched) /\ r.i = Len(data) + 1

C4_PageFetchesSequential ==
  /\ Sequential(2, StaticFiles, data2, fetched2)
  /\ Sequential(3, filesToTrack, data3, fetched3)

C4_Witness ==
  /\ pc3 = "text" /\ Len(fetched3) = 2 /\ Len(data3) = 1
  /\ pc2 = "fetch" /\ Len(fetched2) = 3
  /\ Cardinality(inflight) = 2

\* C5: for a document with N task checkboxes (task-list items holding a
\* checkbox that is not a navigation toggle) of which K are checked, the page
\* scanner returns completed = K, total = N and percentage = round(100*K/N),
\* 0 when N = 0.
TaskCheckboxes == { j \in 1..Len(doc.items) :
                      doc.items[j].cls /\ doc.items[j].box \notin ({"none"} \cup NavToggles) }
RoundHalfUp(num, den) == (2 * num + den) \div (2 * den)

C5_ScannerCountsAndRounds ==
  (pc1 = "done" /\ bar # <<>>) =>
     LET N == Cardinality(TaskCheckboxes)
         K == Cardinality({ j \in TaskCheckboxes : doc.items[j].checked })
     IN /\ bar[1].total = N
        /\ bar[1].completed = K
        /\ bar[1].percentage = IF N = 0 THEN 0 ELSE RoundHalfUp(100 * K, N)

\* C6: both parseHtmlProgress functions, applied to the markup of a document,
\* return the completed and total that parseCurrentPageProgress returns on
\* that document.
C6_SameCountingRule ==
  (pc1 = "done" /\ bar # <<>>) =>
     \A r \in { scanned.index, scanned.static } :
        r # <<>> => (r[1].completed = bar[1].completed /\ r[1].total = bar[1].total)

\* C7: the tracked list holds neither the dashboard's own page (location '',
\* index/, index.md or index.html) nor a page nested more than one level deep,
\* and holds every other page of the index.
DashboardLocations == { <<>>, << "index", "/" >>, << "index", ".md" >>, << "index", ".html" >> }
Nested(loc) == \E j \in 1..(Len(loc) - 1) : loc[j] = "/"
Discovered == pc3 \in {"fetch", "done"} /\ idxError = "none"

C7_DiscoveryExcludesDashboardAndNested ==
  Discovered =>
     /\ \A j \in 1..Len(filesToTrack) :
          /\ filesToTrack[j].path \notin DashboardLocations
          /\ ~Nested(filesToTrack[j].path)
     /\ \A j \in 1..Len(searchIndex.docs) :
          LET loc == searchIndex.docs[j].location
          IN (loc \notin DashboardLocations /\ ~Nested(loc)) =>
                \E m \in 1..Len(filesToTrack) : filesToTrack[m].path = loc

DashboardsIdle ==
  /\ fetched2 = <<>> /\ fetched3 = <<>>
  /\ inflight = {}
  /\ container = <<>>
  /\ ~Injected(2) /\ ~Injected(3)

C9_MissingContainerAbortsSilently ==
  /\ ~dashboardEl => DashboardsIdle
  /\ (~dashboardEl /\ barEl # "authored") =>
        (barEl = "absent" /\ bar = <<>> /\ ~Injected(1))

\* C9 amended: without progress-dashboard-container both dashboard scripts do
\* nothing but log.  Without current-page-progress-bar the page scanner aborts
\* with a log only when the page has no content region at all; otherwise it
\* creates the container in the first region matched by its selector list,
\* injects its script tag and renders the bar there.
FirstRegion(r) ==
  /\ r \in regions
  /\ \A j, m \in 1..Len(RegionSelectors) :
       (RegionSelectors[j] = r /\ RegionSelectors[m] \in regions) => j <= m

C9_MissingContainerAbortsOrFallsBack ==
  /\ ~dashboardEl =>
       /\ DashboardsIdle
       /\ pc2 = "done" => "h2: container not found" \in console
       /\ pc3 = "done" => "h3: container not found" \in console
  /\ (~dashboardEl /\ barEl # "authored" /\ pc1 = "done") =>
       IF regions = {}
       THEN /\ barEl = "absent" /\ barParent = "none" /\ bar = <<>> /\ ~Injected(1)
            /\ "h1: no suitable container" \in console
       ELSE /\ barEl = "fallback" /\ FirstRegion(barParent)
            /\ Len(bar) = 1 /\ Injected(1)

C9_Witness ==
  /\ ~dashboardEl /\ pc1 = "done" /\ pc2 = "done" /\ pc3 = "done"
  /\ regions = {} /\ barEl = "absent"
  /\ "h1: no suitable container" \in console

\* C10: on a page with the dashboard container the page scanner creates no
\* fallback container, injects no script tag and writes no bar; on a page
\* without it the dashboard handlers fetch nothing and write nothing; no page
\* shows both a progress bar and dashboard cards.
C10_ScannerAndDashboardExclusive ==
  /\ dashboardEl => (bar = <<>> /\ barEl # "fallback" /\ barParent = "none" /\ ~Injected(1))
  /\ ~dashboardEl => DashboardsIdle
  /\ ~(bar # <<>> /\ HasCards)

C10_Witness ==
  /\ dashboardEl /\ barEl = "absent"
  /\ pc1 = "done" /\ pc2 = "done" /\ pc3 = "done"
  /\ HasCards /\ bar = <<>>

\* C11: on a page with the dashboard container, once every handler has run to
\* completion the container holds exactly one card per page of the discovered
\* tracked list, in list order, and nothing else, whatever the order in which
\* the fetches of the two dashboard handlers settled.
AllHandlersDone == pc1 = "done" /\ pc2 = "done" /\ pc3 = "done"

C11_OneCardPerDiscoveredPage ==
  (dashboardEl /\ AllHandlersDone /\ filesToTrack # <<>>) =>
     /\ Len(container) = Len(filesToTrack)
     /\ \A j \in 1..Len(container) :
          /\ container[j].kind = "card"
          /\ container[j].by = 3
          /\ container[j].name = filesToTrack[j].name

\* C12: every result of parseCurrentPageProgress and of both parseHtmlProgress
\* functions, for any document and for the empty body of a failed fetch, has
\* 0 <= completed <= total and 0 <= percentage <= 100; a list item adds at most
\* 1 to total and at most 1 to completed.
WithinBounds(r, items) ==
  /\ 0 <= r.completed /\ r.completed <= r.total
  /\ r.total <= Len(items)
  /\ 0 <= r.percentage /\ r.percentage <= 100

\* the counts of a document and of the same document without its last item
AtMostOnePerItem(r, shorter) ==
  /\ r.total - shorter.total \in {0, 1}
  /\ r.completed - shorter.completed \in {0, 1}

WithoutLast == [doc EXCEPT !.items = SubSeq(doc.items, 1, Len(doc.items) - 1)]

C12_TaskCountsWithinBounds ==
  /\ bar # <<>> =>
       /\ WithinBounds(bar[1], doc.items)
       /\ doc.items # <<>> => AtMostOnePerItem(bar[1], parseCurrentPageProgress(WithoutLast))
  /\ scanned.index # <<>> =>
       /\ WithinBounds(scanned.index[1], doc.items)
       /\ doc.items # <<>> =>
            AtMostOnePerItem(scanned.index[1], parseHtmlProgress(HtmlOf(WithoutLast)))
  /\ scanned.static # <<>> =>
       /\ WithinBounds(scanned.static[1], doc.items)
       /\ doc.items # <<>> =>
            AtMostOnePerItem(scanned.static[1], parseHtmlProgressStatic(HtmlOf(WithoutLast)))
  /\ \A r \in { parseHtmlProgress(EmptyHtml), parseHtmlProgressStatic(EmptyHtml) } :
       WithinBounds(r, <<>>)

C12_Witness ==
  /\ pc1 = "done" /\ bar # <<>> /\ scanned.index # <<>> /\ scanned.static # <<>>
  /\ Len(doc.items) = 3
  /\ doc.items[3].dataChecked /\ doc.items[3].checked /\ doc.items[3].box = "task"
  /\ doc.items[3].cls /\ doc.items[3].where = ContentOf(doc.areas)
  /\ scanned.static[1].total = 3 /\ scanned.static[1].completed = 3
  /\ scanned.static[1].percentage = 100
  /\ bar[1].completed = 3 /\ scanned.index[1].completed = 3

\* C13: provided every issued fetch settles, a dashboard load terminates and
\* the container leaves the loading state for good: from some point on it
\* shows progress cards, the no-tracked-pages message or an error message, and
\* once both loading messages are gone none comes back.
ShowsLoading == \E j \in 1..Len(container) : container[j] \in { LoadingStatic, LoadingIndex }

ShowsOutcome ==
  \/ container # <<>> /\ \A j \in 1..Len(container) : container[j].kind = "card"
  \/ container = << NoTrackedPages >>
  \/ container \in { << ErrorFetchIndex >>, << ErrorParseIndex >> }

LoadStarted == pc2 # "ready" /\ pc3 # "ready"

LoadOver == AllHandlersDone /\ inflight = {} /\ ~ShowsLoading /\ ShowsOutcome

C13_DashboardLoadLeavesLoadingState ==
  /\ <>[](dashboardEl => LoadOver)
  /\ [][(dashboardEl /\ LoadStarted /\ ~ShowsLoading) => (~ShowsLoading /\ ShowsOutcome)']_vars

C13_Witness ==
  /\ dashboardEl /\ AllHandlersDone /\ inflight = {}
  /\ idxError = "fetch"
  /\ container = << NoTrackedPages >>
  /\ \E j \in 1..Len(outcomes2) : Failed(outcomes2[j])

====
